---- MODULE Spec2Model ----
(***************************************************************************)
(* Model of HeatmapGenerator (src/src/heatmap_generator.py): loading of    *)
(* the three stage tables, reconciliation of gene and cell identifiers,    *)
(* thresholding, pattern encoding, gene sorting and truncation.            *)
(***************************************************************************)
EXTENDS Integers, Sequences, FiniteSets, TLC

VARIABLES
  files,        \* the three stage files on disk: [l1, l4, d1]
  phase,        \* "new", "failed" (construction aborted), "ready", "returned"
  df_L1,        \* self.df_L1
  df_L4,        \* self.df_L4
  df_D1,        \* self.df_D1
  genes_all,    \* self.genes_all
  cells_union,  \* self.cells_union
  request,      \* the arguments of the call of generate_heatmap just made
  result,       \* what that call returned or raised
  locals,       \* the locals of that call when it returned or raised
  reused        \* TRUE once an earlier request has been served by this instance

vars == <<files, phase, df_L1, df_L4, df_D1, genes_all, cells_union,
          request, result, locals, reused>>

\* ------------------------------------------------------------------ bounds

\* Longest requested gene list.
MaxLen == 3

\* Display caps (max_rows, max_cols) a request carries: with at most three
\* cells and MaxLen genes they cut to one, cut to two, or leave two whole.
Caps == {1, 2}

\* ------------------------------------------------------- generic helpers

Range(s) == {s[i] : i \in 1..Len(s)}

Min(a, b) == IF a < b THEN a ELSE b

\* list.index(x): the first position holding x
IndexOf(s, x) == CHOOSE i \in 1..Len(s) : s[i] = x /\ \A j \in 1..(i-1) : s[j] # x

\* A sequence in normal form: a tuple whose entries are computed once.
Tuple(f) == f \o <<>>

\* positions 1..n in order
Iota(n) == Tuple([i \in 1..n |-> i])

SeqsUpTo(S, n) == UNION {[1..k -> S] : k \in 0..n}

\* Code-point order of the identifiers used as cell and gene labels.
NameOrder == <<"c1", "c2", "c3", "g1", "g2", "g3">>

Rank(s) == IndexOf(NameOrder, s)

\* sorted(set): ascending list of the elements of a set of labels
RECURSIVE sorted(_)
sorted(S) ==
  IF S = {} THEN <<>>
  ELSE LET m == CHOOSE x \in S : \A y \in S : Rank(x) <= Rank(y)
       IN <<m>> \o sorted(S \ {m})

\* ------------------------------------------------------ numeric values

NaN == [nan |-> TRUE, v |-> 0]

Num(n) == [nan |-> FALSE, v |-> n]

\* pd.to_numeric(errors='coerce') on one raw text field
to_numeric(s) ==
  CASE s = "0" -> Num(0)
    [] s = "1" -> Num(1)
    [] s = "2" -> Num(2)
    [] OTHER -> NaN

\* str.strip() on the column names that occur in the input files
strip(c) ==
  CASE c = " Gene_Name " -> "Gene_Name"
    [] c = "c3 " -> "c3"
    [] OTHER -> c

\* str.lower() on the column names that occur in the input files
lower(c) ==
  CASE c = "Gene_Name" -> "gene_name"
    [] c = "WBGeneID" -> "wbgeneid"
    [] OTHER -> c

\* -------------------------------------------------------------- input files

\* No gene_name column: first column is the id, second the gene name.
FileDefault ==
  [header |-> <<"WBGeneID", "symbol", "c1", "c2">>,
   rows |-> << <<"W1", "g1", "2", "0">>,
               <<"W2", "g2", "0", "N/A">>,
               <<"W3", "g3", "1", "1">>,
               <<"W4", "g1", "0", "2">> >>]

\* gene_name found after stripping and lower-casing, behind an id column.
FileMixed ==
  [header |-> <<"id", "c1", " Gene_Name ", "c3 ">>,
   rows |-> << <<"x", "2", "g1", "0">>,
               <<"y", "", "g3", "1">>,
               <<"z", "1", "g2", "2">> >>]

\* Two columns, no expression column.
FileNoCells ==
  [header |-> <<"gene_id", "gene_name">>,
   rows |-> << <<"a", "g1">>, <<"b", "g2">> >>]

\* One column, named gene_name: there is no id column.
FileOnlyName ==
  [header |-> <<"gene_name">>,
   rows |-> << <<"g1">>, <<"g3">> >>]

\* One column, not named gene_name.
FileOnlyOther ==
  [header |-> <<"c1">>,
   rows |-> << <<"2">> >>]

\* The stage files of the request model, and those of the loader model.
Files == {FileDefault, FileMixed, FileNoCells, FileOnlyOther}

LoaderFiles == Files \cup {FileOnlyName}

GeneNames == {"g1", "g2", "g3"}

Thresholds == {0, 1}

\* ------------------------------------------------------------ data frames
\* A frame is [index, columns, values] with values[r][c] the entry of row
\* index[r] and column columns[c].

EmptyFrame == [index |-> <<>>, columns |-> <<>>, values |-> <<>>]

ValueError == [ok |-> FALSE, err |-> "ValueError"]

\* HeatmapGenerator._read_gene_by_cell_csv
read_gene_by_cell_csv(file) ==
  LET columns == Tuple([i \in 1..Len(file.header) |-> strip(file.header[i])])
      lowcols == Tuple([i \in 1..Len(columns) |-> lower(columns[i])])
      named == \E i \in 1..Len(lowcols) : lowcols[i] = "gene_name"
  IN IF ~named /\ Len(columns) < 2 THEN ValueError
     ELSE
       LET name_pos == IF named THEN IndexOf(lowcols, "gene_name") ELSE 2
           gene_name_col_name == columns[name_pos]
           \* gene_id_col: a set holding the id column's name, or empty (None)
           gene_id_col ==
             IF named
             THEN (IF columns[1] # gene_name_col_name THEN {columns[1]} ELSE {})
             ELSE {columns[1]}
           exclude == {gene_name_col_name} \cup gene_id_col
           IsExpr(i) == columns[i] \notin exclude
           expr_pos == SelectSeq(Iota(Len(columns)), IsExpr)
           names == Tuple([r \in 1..Len(file.rows) |-> file.rows[r][name_pos]])
           \* ~index.duplicated(keep='first')
           First(r) == \A q \in 1..(r-1) : names[q] # names[r]
           keep == SelectSeq(Iota(Len(names)), First)
       IN [ok |-> TRUE,
           df |-> [index |-> Tuple([k \in 1..Len(keep) |-> names[keep[k]]]),
                   columns |-> Tuple([k \in 1..Len(expr_pos) |-> columns[expr_pos[k]]]),
                   values |-> Tuple([k \in 1..Len(keep) |->
                                Tuple([c \in 1..Len(expr_pos) |->
                                  to_numeric(file.rows[keep[k]][expr_pos[c]])])])]]

\* The genes of any table instead of those of all three.
any_genes(l1, l4, d1) ==
  sorted(Range(l1.index) \cup Range(l4.index) \cup Range(d1.index))

\* HeatmapGenerator.__init__, line 28
common_genes(l1, l4, d1) ==
  sorted(Range(l1.index) \cap Range(l4.index) \cap Range(d1.index))

\* HeatmapGenerator.__init__, line 29
union_cells(l1, l4, d1) ==
  sorted(Range(l1.columns) \cup Range(l4.columns) \cup Range(d1.columns))

\* -------------------------------------------------------- frame operations

NaNRow(n) == Tuple([c \in 1..n |-> NaN])

\* DataFrame.reindex(labels) on the row axis: an equal axis is kept as it is,
\* otherwise each label takes its row, or a row of NaN when it is absent.
reindex(df, labels) ==
  IF df.index = labels THEN df
  ELSE [index |-> labels,
        columns |-> df.columns,
        values |-> Tuple([r \in 1..Len(labels) |->
                     IF labels[r] \in Range(df.index)
                     THEN df.values[IndexOf(df.index, labels[r])]
                     ELSE NaNRow(Len(df.columns))])]

\* DataFrame.T
transpose(df) ==
  [index |-> df.columns,
   columns |-> df.index,
   values |-> Tuple([r \in 1..Len(df.columns) |->
                Tuple([c \in 1..Len(df.index) |-> df.values[c][r]])])]

\* DataFrame.reindex(index=..., columns=...)
reindex_axes(df, index, columns) ==
  IF df.index = index /\ df.columns = columns THEN df
  ELSE transpose(reindex(transpose(reindex(df, index)), columns))

\* Missing entries filled with one more than the value asked for.
fillna_one_more(df, x) ==
  [df EXCEPT !.values = Tuple([r \in 1..Len(df.index) |->
                          Tuple([c \in 1..Len(df.columns) |->
                            IF df.values[r][c].nan THEN Num(x.v + 1)
                            ELSE df.values[r][c]])])]

\* DataFrame.fillna(x)
fillna(df, x) ==
  [df EXCEPT !.values = Tuple([r \in 1..Len(df.index) |->
                          Tuple([c \in 1..Len(df.columns) |->
                            IF df.values[r][c].nan THEN x ELSE df.values[r][c]])])]

\* A threshold that counts a value equal to it as expressed.
greater_or_equal(x, expr_threshold) == ~x.nan /\ x.v >= expr_threshold

\* value > expr_threshold on one entry (a comparison with NaN is false)
greater(x, expr_threshold) == ~x.nan /\ x.v > expr_threshold

\* (sub_filled > expr_threshold).astype(int)
greater_astype_int(df, expr_threshold) ==
  [df EXCEPT !.values = Tuple([r \in 1..Len(df.index) |->
                          Tuple([c \in 1..Len(df.columns) |->
                            IF greater(df.values[r][c], expr_threshold)
                            THEN Num(1) ELSE Num(0)])])]

\* HeatmapGenerator._build_binary_matrix
build_binary_matrix(expr_df, genes, cells, expr_threshold) ==
  LET sub == reindex(transpose(reindex(expr_df, genes)), cells)
      sub_filled == fillna(sub, Num(0))
  IN greater_astype_int(sub_filled, expr_threshold)

\* bin.reindex(index=cells, columns=genes).fillna(0).astype(int).values
pattern_array(bin, cells, genes) ==
  LET f == fillna(reindex_axes(bin, cells, genes), Num(0))
  IN Tuple([r \in 1..Len(cells) |-> Tuple([c \in 1..Len(genes) |-> f.values[r][c].v])])

\* ------------------------------------------------------- pattern encoding

\* ndarray.astype(str) on a 0/1 entry
str(b) == CASE b = 0 -> "0" [] b = 1 -> "1"

\* np.char.add(np.char.add(A, B), C)
pattern_strings(A, B, C, n_rows, n_cols) ==
  Tuple([r \in 1..n_rows |-> Tuple([c \in 1..n_cols |->
    (str(A[r][c]) \o str(B[r][c])) \o str(C[r][c])])])

pattern_levels == <<"000", "001", "010", "011", "100", "101", "110", "111">>

\* pattern_to_int.get(s, 0), and order.get(p, 0) of the gene sort
pattern_to_int(s) ==
  IF s \in Range(pattern_levels) THEN IndexOf(pattern_levels, s) - 1 ELSE 0

RECURSIVE column_sum(_, _, _)
column_sum(M, c, n) == IF n = 0 THEN 0 ELSE M[n][c] + column_sum(M, c, n - 1)

\* (M.sum(axis=0) > 0).astype(int), one column
gene_any(M, c) == IF column_sum(M, c, Len(M)) > 0 THEN 1 ELSE 0

\* gene_patterns of the sort branch
gene_patterns(A, B, C, n_cols) ==
  Tuple([c \in 1..n_cols |->
    (str(gene_any(A, c)) \o str(gene_any(B, c))) \o str(gene_any(C, c))])

\* A sort step that puts i in front of the entries with an equal key.
RECURSIVE insert_before_equal(_, _, _)
insert_before_equal(s, i, key) ==
  IF s = <<>> THEN <<i>>
  ELSE IF key[i] <= key[s[Len(s)]]
       THEN insert_before_equal(SubSeq(s, 1, Len(s) - 1), i, key) \o <<s[Len(s)]>>
       ELSE s \o <<i>>

\* one step of a stable sort: i goes behind every entry whose key is <= its own
RECURSIVE insert_stable(_, _, _)
insert_stable(s, i, key) ==
  IF s = <<>> THEN <<i>>
  ELSE IF key[i] < key[s[Len(s)]]
       THEN insert_stable(SubSeq(s, 1, Len(s) - 1), i, key) \o <<s[Len(s)]>>
       ELSE s \o <<i>>

RECURSIVE sorted_prefix(_, _)
sorted_prefix(n, key) ==
  IF n = 0 THEN <<>> ELSE insert_stable(sorted_prefix(n - 1, key), n, key)

\* sorted(range(n), key=lambda i: order.get(gene_patterns[i], 0))
gene_order_idx(patterns) ==
  sorted_prefix(Len(patterns), Tuple([i \in 1..Len(patterns) |-> pattern_to_int(patterns[i])]))

\* [genes_selected[i] for i in gene_order_idx]
take(s, idx) == Tuple([k \in 1..Len(idx) |-> s[idx[k]]])

\* The gene labels reordered, the matrix columns left where they were.
take_columns_unpermuted(M, idx) == M

\* strs[:, gene_order_idx]
take_columns(M, idx) == Tuple([r \in 1..Len(M) |-> take(M[r], idx)])

\* np.arange(n): the positions 1..n, none when n <= 0
arange(n) == IF n <= 0 THEN <<>> ELSE Iota(n)

\* A cut that keeps the last rows and columns instead of the first.
ix_tail(M, row_idx, col_idx) ==
  Tuple([r \in 1..Len(row_idx) |-> Tuple([c \in 1..Len(col_idx) |->
    M[Len(M) - Len(row_idx) + r][Len(M[1]) - Len(col_idx) + c]])])

\* plot_matrix[np.ix_(row_idx, col_idx)]
ix(M, row_idx, col_idx) ==
  Tuple([r \in 1..Len(row_idx) |-> Tuple([c \in 1..Len(col_idx) |-> M[row_idx[r]][col_idx[c]]])])

NoneFound == "None of the requested genes are present in all three datasets."

VectorizeEmpty == "cannot call vectorize on size 0 inputs unless otypes is set"

Failure(msg, missing) ==
  [result |-> [kind |-> "error", error |-> msg],
   locals |-> [kind |-> "error", missing_genes |-> missing]]

\* the summary dictionary of generate_heatmap
summary_of(genes_selected, missing_genes, cells, plot_cols, plot_rows) ==
  [genes_found |-> Len(genes_selected),
   missing_genes |-> missing_genes,
   total_cells |-> Len(cells),
   genes_plotted |-> Len(plot_cols),
   cells_plotted |-> Len(plot_rows)]

\* HeatmapGenerator.generate_heatmap on instance inst: the value returned (or
\* the error raised) and the locals at that point
generate_heatmap(inst, req) ==
  LET InAll(g) == g \in Range(inst.genes_all)
      NotInAll(g) == g \notin Range(inst.genes_all)
      genes_selected == SelectSeq(req.gene_list, InAll)
      missing_genes == SelectSeq(req.gene_list, NotInAll)
      cells == inst.cells_union
  IN IF Len(genes_selected) = 0 THEN Failure(NoneFound, missing_genes)
     ELSE
       LET bin_L1 == build_binary_matrix(inst.df_L1, genes_selected, cells, req.expr_threshold)
           bin_L4 == build_binary_matrix(inst.df_L4, genes_selected, cells, req.expr_threshold)
           bin_D1 == build_binary_matrix(inst.df_D1, genes_selected, cells, req.expr_threshold)
           A == pattern_array(bin_L1, cells, genes_selected)
           B == pattern_array(bin_L4, cells, genes_selected)
           C == pattern_array(bin_D1, cells, genes_selected)
           strs == pattern_strings(A, B, C, Len(cells), Len(genes_selected))
           idx == IF req.sort_genes_by_pattern
                  THEN gene_order_idx(gene_patterns(A, B, C, Len(genes_selected)))
                  ELSE Iota(Len(genes_selected))
           genes_sorted == take(genes_selected, idx)
           strs_sorted == take_columns(strs, idx)
       IN \* np.vectorize refuses an input of size 0
          IF Len(cells) = 0 THEN Failure(VectorizeEmpty, missing_genes)
          ELSE
            LET plot_matrix == Tuple([r \in 1..Len(cells) |->
                                 Tuple([c \in 1..Len(genes_sorted) |->
                                   pattern_to_int(strs_sorted[r][c])])])
                row_idx == arange(Min(Len(cells), req.max_rows))
                col_idx == arange(Min(Len(genes_sorted), req.max_cols))
                plot_mat == ix(plot_matrix, row_idx, col_idx)
                plot_rows == take(cells, row_idx)
                plot_cols == take(genes_sorted, col_idx)
            IN [result |-> [kind |-> "ok",
                            plot_mat |-> plot_mat,
                            plot_rows |-> plot_rows,
                            plot_cols |-> plot_cols,
                            summary |-> summary_of(genes_sorted, missing_genes,
                                                   cells, plot_cols, plot_rows)],
                locals |-> [kind |-> "ok",
                            A |-> A,
                            B |-> B,
                            C |-> C,
                            genes_found |-> genes_selected,
                            genes_selected |-> genes_sorted,
                            missing_genes |-> missing_genes,
                            plot_matrix |-> plot_matrix]]

\* HeatmapGenerator.__init__: the instance built from the three files, or
\* the loader's error
construct(fs) ==
  LET l1 == read_gene_by_cell_csv(fs.l1)
      l4 == read_gene_by_cell_csv(fs.l4)
      d1 == read_gene_by_cell_csv(fs.d1)
  IN IF l1.ok /\ l4.ok /\ d1.ok
     THEN [ok |-> TRUE,
           inst |-> [df_L1 |-> l1.df, df_L4 |-> l4.df, df_D1 |-> d1.df,
                     genes_all |-> common_genes(l1.df, l4.df, d1.df),
                     cells_union |-> union_cells(l1.df, l4.df, d1.df)]]
     ELSE ValueError

\* The attributes of self a request reads.
Instance ==
  [df_L1 |-> df_L1, df_L4 |-> df_L4, df_D1 |-> df_D1,
   genes_all |-> genes_all, cells_union |-> cells_union]

\* A request that kept its plotted rows as the instance's cell list.
instance_after_keeping_rows(inst, req) ==
  [inst EXCEPT !.cells_union =
     SubSeq(inst.cells_union, 1, Min(Len(inst.cells_union), req.max_rows))]

\* generate_heatmap assigns to no attribute of self: the instance it leaves
instance_after(inst, req) == inst

Requests ==
  [gene_list : SeqsUpTo(GeneNames, MaxLen),
   expr_threshold : Thresholds,
   sort_genes_by_pattern : BOOLEAN,
   max_rows : Caps,
   max_cols : Caps]

NoRequest == [kind |-> "none"]

NoResult == [kind |-> "none"]

NoLocals == [kind |-> "none"]

NotConstructed ==
  /\ phase = "new"
  /\ df_L1 = EmptyFrame
  /\ df_L4 = EmptyFrame
  /\ df_D1 = EmptyFrame
  /\ genes_all = <<>>
  /\ cells_union = <<>>
  /\ request = NoRequest
  /\ result = NoResult
  /\ locals = NoLocals
  /\ reused = FALSE

Init ==
  /\ files \in [l1 : Files, l4 : Files, d1 : Files]
  /\ NotConstructed

InitLoad ==
  /\ files \in [l1 : LoaderFiles, l4 : LoaderFiles, d1 : LoaderFiles]
  /\ NotConstructed

\* HeatmapGenerator.__init__ with all three files loaded
ConstructOk ==
  /\ phase = "new"
  /\ LET c == construct(files)
     IN /\ c.ok
        /\ df_L1' = c.inst.df_L1
        /\ df_L4' = c.inst.df_L4
        /\ df_D1' = c.inst.df_D1
        /\ genes_all' = c.inst.genes_all
        /\ cells_union' = c.inst.cells_union
  /\ phase' = "ready"
  /\ UNCHANGED <<files, request, result, locals, reused>>

\* HeatmapGenerator.__init__ aborted by a loader error: no instance exists
ConstructFail ==
  /\ phase = "new"
  /\ ~construct(files).ok
  /\ phase' = "failed"
  /\ UNCHANGED <<files, df_L1, df_L4, df_D1, genes_all, cells_union,
                 request, result, locals, reused>>

\* One call of generate_heatmap, from entry to return or raise
Generate ==
  /\ phase = "ready"
  /\ \E req \in Requests :
       LET out == generate_heatmap(Instance, req)
           after == instance_after(Instance, req)
       IN /\ request' = req
          /\ result' = out.result
          /\ locals' = out.locals
          /\ df_L1' = after.df_L1
          /\ df_L4' = after.df_L4
          /\ df_D1' = after.df_D1
          /\ genes_all' = after.genes_all
          /\ cells_union' = after.cells_union
  /\ phase' = "returned"
  /\ UNCHANGED <<files, reused>>

\* The caller is done with the figure and summary (or the error) of its
\* request; the instance is kept for the next one.
Release ==
  /\ phase = "returned"
  /\ phase' = "ready"
  /\ request' = NoRequest
  /\ result' = NoResult
  /\ locals' = NoLocals
  /\ reused' = TRUE
  /\ UNCHANGED <<files, df_L1, df_L4, df_D1, genes_all, cells_union>>

Next == ConstructOk \/ ConstructFail \/ Generate \/ Release

\* Construction followed by any sequence of requests.
Spec == Init /\ [][Next]_vars

NextLoad == ConstructOk \/ ConstructFail

\* Construction alone, over every shape of stage file.
SpecLoad == InitLoad /\ [][NextLoad]_vars

\* ------------------------------------------------------ reference notions
\* What the claims speak of, read off the loaded tables label by label.

Measured(df, g, c) ==
  /\ g \in Range(df.index)
  /\ c \in Range(df.columns)
  /\ ~df.values[IndexOf(df.index, g)][IndexOf(df.columns, c)].nan

Entry(df, g, c) == df.values[IndexOf(df.index, g)][IndexOf(df.columns, c)].v

\* Presence flag of gene g in cell c at threshold t: an entry that is absent
\* or not a number counts as the value 0.
Presence(df, c, g, t) ==
  IF (IF Measured(df, g, c) THEN Entry(df, g, c) ELSE 0) > t THEN 1 ELSE 0

Code(c, g, t) ==
  4 * Presence(df_L1, c, g, t) + 2 * Presence(df_L4, c, g, t) + Presence(df_D1, c, g, t)

AnyCell(df, g, t) ==
  IF \E c \in Range(cells_union) : Presence(df, c, g, t) = 1 THEN 1 ELSE 0

AggregateCode(g, t) ==
  4 * AnyCell(df_L1, g, t) + 2 * AnyCell(df_L4, g, t) + AnyCell(df_D1, g, t)

InUniverse(g) == g \in Range(genes_all)

NotInUniverse(g) == g \notin Range(genes_all)

Occurrences(s, x) == Cardinality({i \in 1..Len(s) : s[i] = x})

SameBag(s, t) ==
  /\ Len(s) = Len(t)
  /\ \A x \in Range(s) \cup Range(t) : Occurrences(s, x) = Occurrences(t, x)

\* The entries of s whose code (codes[i] for s[i]) is k, in order.
WithCode(s, codes, k) ==
  LET Has(i) == codes[i] = k IN take(s, SelectSeq(Iota(Len(s)), Has))

NoDuplicates(s) == \A i, j \in 1..Len(s) : s[i] = s[j] => i = j

\* The gene-name column of a raw file: the first column whose stripped,
\* lower-cased name is gene_name, else the second column.
GeneColumn(file) ==
  IF \E i \in 1..Len(file.header) : lower(strip(file.header[i])) = "gene_name"
  THEN CHOOSE i \in 1..Len(file.header) :
         /\ lower(strip(file.header[i])) = "gene_name"
         /\ \A j \in 1..(i - 1) : lower(strip(file.header[j])) # "gene_name"
  ELSE 2

RawGenes(file) == {file.rows[r][GeneColumn(file)] : r \in 1..Len(file.rows)}

StageFiles == {files.l1, files.l4, files.d1}

\* ------------------------------------------------------------------ claims

\* C1: every entry of the output matrix of a successful request lies in 0..7
\* and equals 4*A + 2*B + C for the presence flags (L1, L4, D1) of the cell
\* labelling its row and the gene labelling its column, in the full matrix and
\* in the plotted block, with sorting and truncation.
C1_PatternCodes ==
  result.kind = "ok" =>
    /\ Len(result.plot_mat) = Len(result.plot_rows)
    /\ \A i \in 1..Len(result.plot_rows) :
         /\ Len(result.plot_mat[i]) = Len(result.plot_cols)
         /\ \A j \in 1..Len(result.plot_cols) :
              /\ result.plot_mat[i][j] \in 0..7
              /\ result.plot_mat[i][j] =
                   Code(result.plot_rows[i], result.plot_cols[j], request.expr_threshold)
    /\ \A i \in 1..Len(cells_union) :
         \A j \in 1..Len(locals.genes_selected) :
           locals.plot_matrix[i][j] =
             Code(cells_union[i], locals.genes_selected[j], request.expr_threshold)

\* A sorted, reordered and truncated output with a code other than 0 and 7.
C1_Witness ==
  /\ result.kind = "ok"
  /\ request.sort_genes_by_pattern
  /\ locals.genes_selected # locals.genes_found
  /\ Len(result.plot_rows) < Len(cells_union)
  /\ Len(result.plot_cols) < Len(locals.genes_selected)
  /\ \E i \in 1..Len(result.plot_rows) : \E j \in 1..Len(result.plot_cols) :
       result.plot_mat[i][j] \notin {0, 7}

StrictIn(df, M, t) ==
  \A i \in 1..Len(cells_union) : \A j \in 1..Len(locals.genes_found) :
    /\ M[i][j] \in {0, 1}
    /\ Measured(df, locals.genes_found[j], cells_union[i]) =>
         /\ M[i][j] = 1 <=> Entry(df, locals.genes_found[j], cells_union[i]) > t
         /\ Entry(df, locals.genes_found[j], cells_union[i]) = t => M[i][j] = 0

\* C2: a numeric expression value v of a stage's table is classified 1 exactly
\* when v > t; a value equal to the threshold t is classified 0.
C2_StrictThreshold ==
  locals.kind = "ok" =>
    /\ StrictIn(df_L1, locals.A, request.expr_threshold)
    /\ StrictIn(df_L4, locals.B, request.expr_threshold)
    /\ StrictIn(df_D1, locals.C, request.expr_threshold)

\* At a positive threshold, one value equal to it and one above it.
C2_Witness ==
  /\ locals.kind = "ok"
  /\ request.expr_threshold = 1
  /\ \E i \in 1..Len(cells_union) : \E j \in 1..Len(locals.genes_found) :
       /\ Measured(df_L1, locals.genes_found[j], cells_union[i])
       /\ Entry(df_L1, locals.genes_found[j], cells_union[i]) = 1
       /\ locals.A[i][j] = 0
  /\ \E i \in 1..Len(cells_union) : \E j \in 1..Len(locals.genes_found) :
       /\ Measured(df_L1, locals.genes_found[j], cells_union[i])
       /\ Entry(df_L1, locals.genes_found[j], cells_union[i]) = 2
       /\ locals.A[i][j] = 1

AbsentIn(df, M) ==
  \A i \in 1..Len(cells_union) : \A j \in 1..Len(locals.genes_found) :
    ~Measured(df, locals.genes_found[j], cells_union[i]) => M[i][j] = 0

\* C3: for every stage, cell of CellUniverse and selected gene, a cell absent
\* from the stage's table or a value that is missing or not a number gives the
\* flag 0, at every threshold >= 0; such entries raise no error: a load fails
\* only on a header, a request only for lack of found genes or of cells.
C3_MissingIsAbsent ==
  /\ locals.kind = "ok" =>
       /\ request.expr_threshold >= 0
       /\ AbsentIn(df_L1, locals.A)
       /\ AbsentIn(df_L4, locals.B)
       /\ AbsentIn(df_D1, locals.C)
  /\ phase = "failed" => \E f \in StageFiles : Len(f.header) < 2
  /\ (phase = "returned" /\ result.kind = "error") =>
       \/ SelectSeq(request.gene_list, InUniverse) = <<>>
       \/ cells_union = <<>>

\* One stage lacks a cell of the universe, one stage holds an unparseable
\* value for a selected gene, and the request succeeded.
C3_Witness ==
  /\ locals.kind = "ok"
  /\ \E c \in Range(cells_union) : c \notin Range(df_L1.columns)
  /\ \E i \in 1..Len(cells_union) : \E j \in 1..Len(locals.genes_found) :
       /\ cells_union[i] \in Range(df_L4.columns)
       /\ ~Measured(df_L4, locals.genes_found[j], cells_union[i])
       /\ locals.B[i][j] = 0

\* C4: a request raises the none-found error exactly when no requested gene
\* is in GeneUniverse; with at least one requested gene in GeneUniverse it
\* succeeds, plots found genes only and reports the others as missing_genes in
\* request order.
C4_NoneFoundOnly ==
  phase = "returned" =>
    /\ (result.kind = "error" /\ result.error = NoneFound)
         <=> SelectSeq(request.gene_list, InUniverse) = <<>>
    /\ SelectSeq(request.gene_list, InUniverse) # <<>> =>
         /\ result.kind = "ok"
         /\ Range(result.plot_cols) \subseteq Range(SelectSeq(request.gene_list, InUniverse))
         /\ result.summary.missing_genes = SelectSeq(request.gene_list, NotInUniverse)

\* C5: a stage file with fewer than 2 columns, whatever its header, makes the
\* load fail with ValueError and aborts the construction.
C5_FewColumnsRejected ==
  (phase # "new" /\ \E f \in StageFiles : Len(f.header) < 2) => phase = "failed"

\* The counts of C6 that the summary dictionary holds.
SummaryCounts ==
  /\ result.summary.genes_found =
       Cardinality({i \in 1..Len(request.gene_list) : InUniverse(request.gene_list[i])})
  /\ result.summary.missing_genes = SelectSeq(request.gene_list, NotInUniverse)
  /\ result.summary.total_cells = Len(cells_union)
  /\ result.summary.genes_plotted = Min(result.summary.genes_found, request.max_cols)
  /\ result.summary.cells_plotted = Min(Len(cells_union), request.max_rows)
  /\ result.summary.genes_found + Len(result.summary.missing_genes)
       = Len(request.gene_list)

\* C6: the Summary returned by a successful request carries genes requested =
\* length of the input list, beside genes found, missing genes, total cells,
\* genes plotted and cells plotted with the stated values.  The dictionary
\* of generate_heatmap has no entry for the requested count.
C6_SummaryWithRequested ==
  result.kind = "ok" =>
    /\ "genes_requested" \in DOMAIN result.summary
    /\ result.summary.genes_requested = Len(request.gene_list)
    /\ SummaryCounts

\* C7: after any sequence of requests the loaded tables, GeneUniverse and
\* CellUniverse are those of construction, and each request's outcome is the
\* outcome of the same request on a fresh instance.
C7_Frame ==
  phase \in {"ready", "returned"} =>
    /\ Instance = construct(files).inst
    /\ phase = "returned" =>
         result = generate_heatmap(construct(files).inst, request).result

\* A successful request on an instance that served a request before.
C7_Witness ==
  /\ reused
  /\ phase = "returned"
  /\ result.kind = "ok"
  /\ Len(result.plot_rows) < Len(cells_union)

\* C8: the gene order before truncation is a permutation of the found genes:
\* the request order of the found genes without sorting; with sorting, the
\* aggregate codes 4*anyL1 + 2*anyL4 + anyD1 do not decrease from left to
\* right and genes of equal code keep their request order.
C8_GeneOrder ==
  locals.kind = "ok" =>
    LET o == locals.genes_selected
        f == SelectSeq(request.gene_list, InUniverse)
        co == Tuple([i \in 1..Len(o) |-> AggregateCode(o[i], request.expr_threshold)])
        cf == Tuple([i \in 1..Len(f) |-> AggregateCode(f[i], request.expr_threshold)])
    IN /\ locals.genes_found = f
       /\ SameBag(o, f)
       /\ ~request.sort_genes_by_pattern => o = f
       /\ request.sort_genes_by_pattern =>
            /\ \A i, j \in 1..Len(o) : i < j => co[i] <= co[j]
            /\ \A k \in Range(cf) : WithCode(o, co, k) = WithCode(f, cf, k)

\* A sort that moved a gene forward and kept two genes of equal code in their
\* request order, which is not their name order.
C8_Witness ==
  /\ locals.kind = "ok"
  /\ request.sort_genes_by_pattern
  /\ locals.genes_selected # locals.genes_found
  /\ \E i, j \in 1..Len(locals.genes_selected) :
       /\ i < j
       /\ Rank(locals.genes_selected[i]) > Rank(locals.genes_selected[j])
       /\ AggregateCode(locals.genes_selected[i], request.expr_threshold)
            = AggregateCode(locals.genes_selected[j], request.expr_threshold)

\* C9: the row labels are the first min(|CellUniverse|, max_rows) cells of
\* CellUniverse, the column labels the first min(found, max_cols) genes of the
\* gene order before truncation, and the output matrix the top-left block of
\* the full pattern matrix.
C9_PrefixTruncation ==
  result.kind = "ok" =>
    /\ result.plot_rows =
         SubSeq(cells_union, 1, Min(Len(cells_union), request.max_rows))
    /\ result.plot_cols =
         SubSeq(locals.genes_selected, 1,
                Min(Len(locals.genes_selected), request.max_cols))
    /\ Len(result.plot_mat) = Len(result.plot_rows)
    /\ \A i \in 1..Len(result.plot_rows) :
         /\ Len(result.plot_mat[i]) = Len(result.plot_cols)
         /\ \A j \in 1..Len(result.plot_cols) :
              result.plot_mat[i][j] = locals.plot_matrix[i][j]

\* Both axes cut, and the entry cut off last differs from the first one kept.
C9_Witness ==
  /\ result.kind = "ok"
  /\ Len(result.plot_rows) < Len(cells_union)
  /\ Len(result.plot_cols) < Len(locals.genes_selected)
  /\ locals.plot_matrix[Len(cells_union)][Len(locals.genes_selected)]
       # locals.plot_matrix[1][1]

\* C10: after construction a gene is in GeneUniverse exactly when it is a row
\* identifier of all three tables (duplicate rows collapsed), and CellUniverse
\* is the duplicate-free ascending sequence of the cells of at least one
\* table, so it is at least as long as each table's cell list.
C10_Universes ==
  phase = "ready" =>
    /\ NoDuplicates(df_L1.index) /\ NoDuplicates(df_L4.index) /\ NoDuplicates(df_D1.index)
    /\ Range(df_L1.index) = RawGenes(files.l1)
    /\ Range(df_L4.index) = RawGenes(files.l4)
    /\ Range(df_D1.index) = RawGenes(files.d1)
    /\ \A g \in Range(df_L1.index) \cup Range(df_L4.index) \cup Range(df_D1.index)
              \cup Range(genes_all) :
         g \in Range(genes_all) <=>
           (g \in Range(df_L1.index) /\ g \in Range(df_L4.index) /\ g \in Range(df_D1.index))
    /\ NoDuplicates(cells_union)
    /\ \A i, j \in 1..Len(cells_union) :
         i < j => Rank(cells_union[i]) < Rank(cells_union[j])
    /\ Range(cells_union) =
         Range(df_L1.columns) \cup Range(df_L4.columns) \cup Range(df_D1.columns)
    /\ Len(cells_union) >= Len(df_L1.columns)
    /\ Len(cells_union) >= Len(df_L4.columns)
    /\ Len(cells_union) >= Len(df_D1.columns)

\* Tables with different genes and cells, a duplicate row collapsed, a gene
\* left out of the universe and a universe longer than every cell list.
C10_Witness ==
  /\ phase = "ready"
  /\ Len(df_L1.index) < Len(files.l1.rows)
  /\ Range(df_L1.index) # Range(df_L4.index)
  /\ genes_all # <<>>
  /\ \E g \in Range(df_L1.index) : g \notin Range(genes_all)
  /\ Len(cells_union) > Len(df_L1.columns)
  /\ Len(cells_union) > Len(df_L4.columns)
  /\ Len(cells_union) > Len(df_D1.columns)
====
